---------------------------- MODULE Spec2Model ----------------------------
(***************************************************************************)
(* Model of libtpl (tpl.go): conversion of an image.Image into a TPL       *)
(* texture blob in one of the formats I4, IA4, RGB565, RGB5A3.             *)
(*                                                                         *)
(* Slices are modelled as sequences, so Go's s[i] is s[i + 1] here.  An    *)
(* index outside a slice, or a make() with a negative length, is a Go      *)
(* run-time panic: the conversion then ends with err = "panic" and no      *)
(* blob.                                                                   *)
(***************************************************************************)
EXTENDS Integers, Sequences, FiniteSets, TLC

(* ------------------------------ bounds --------------------------------- *)
\* Largest image width and height that are enumerated.
MaxW == 9
MaxH == 9
\* Largest distance of the bounds rectangle's Min from (0,0), per axis.
MaxOrigin == 1
\* Largest stride of the cyclic colour pattern that fills an image.
MaxStride == 2

(* ------------------------- program constants --------------------------- *)
TPLMagic == 2142000
I4 == 0
IA4 == 2
RGB565 == 4
RGB5A3 == 5

(* --------------------------- Go arithmetic ----------------------------- *)
\* Go's % truncates toward zero: the remainder has the sign of the dividend.
GoRem(a, b) == IF a >= 0 THEN a % b ELSE 0 - ((0 - a) % b)

\* Go's / on ints truncates toward zero.
GoDiv(a, b) == IF a >= 0 THEN a \div b ELSE 0 - ((0 - a) \div b)

Pow2(n) == 2 ^ n

\* x >> n and x << n on a non-negative value (the caller applies the width).
Shr(x, n) == x \div Pow2(n)
Shl(x, n) == x * Pow2(n)

RECURSIVE BitAnd(_, _)
BitAnd(a, b) ==
    IF a = 0 \/ b = 0 THEN 0
    ELSE ((a % 2) * (b % 2)) + 2 * BitAnd(a \div 2, b \div 2)

RECURSIVE BitOr(_, _)
BitOr(a, b) ==
    IF a = 0 THEN b
    ELSE IF b = 0 THEN a
    ELSE (IF (a % 2) + (b % 2) > 0 THEN 1 ELSE 0) + 2 * BitOr(a \div 2, b \div 2)

\* Conversions to a narrower unsigned type keep the low bits.
ToByte(v) == v % 256
ToUint16(v) == v % 65536

\* A uint32 texel is kept as its four bytes, most significant first, since its
\* value can exceed the integers of TLC.  Every shift the program applies to
\* a texel is by a multiple of 8 and is followed or preceded by & 0xff.
Uint32Zero == <<0, 0, 0, 0>>

\* (w >> n) & 0xff, for n in {0, 8, 16, 24}.
ShrAnd255(w, n) == w[4 - (n \div 8)]

\* (v & 0xff) << n as a uint32, for n in {0, 8, 16, 24}.
And255Shl(v, n) == [i \in 1..4 |-> IF i = 4 - (n \div 8) THEN BitAnd(v, 255) ELSE 0]

\* w1 | w2 on uint32.
Or32(w1, w2) == [i \in 1..4 |-> BitOr(w1[i], w2[i])]

\* make([]T, n): n zero elements.
MakeZero(n, zero) == [i \in 1..n |-> zero]

(* ------------------------------ the input ------------------------------ *)
\* What color.Color.RGBA() can return for a pixel: alpha-premultiplied 16-bit
\* channels.  The high bytes are non-zero so that the narrowing to 8 bits shows.
Palette ==
    << [r |-> 0,     g |-> 0,     b |-> 0,     a |-> 0],      \* transparent
       [r |-> 65535, g |-> 65535, b |-> 65535, a |-> 65535],  \* opaque white
       [r |-> 0,     g |-> 0,     b |-> 0,     a |-> 65535],  \* opaque black
       [r |-> 496,   g |-> 640,   b |-> 784,   a |-> 65498],  \* f0 80 10, a = da
       [r |-> 272,   g |-> 896,   b |-> 1008,  a |-> 65499] >> \* 10 80 f0, a = db

\* An image: its bounds rectangle and a cyclic colour pattern over its pixels.
Rect(minX, minY, w, h) ==
    [Min |-> [X |-> minX, Y |-> minY], Max |-> [X |-> minX + w, Y |-> minY + h]]

Images(origins) ==
    { [Bounds |-> Rect(mx, my, w, h), stride |-> s, first |-> f] :
        mx \in origins, my \in origins, w \in 0..MaxW, h \in 0..MaxH,
        s \in 0..MaxStride, f \in 0..(Len(Palette) - 1) }

\* img.At(x, y).RGBA()
At(img, x, y) ==
    LET w == img.Bounds.Max.X - img.Bounds.Min.X
        k == (x - img.Bounds.Min.X) + (y - img.Bounds.Min.Y) * w
    IN  Palette[((img.first + k * img.stride) % Len(Palette)) + 1]

(* ------------------------------- state --------------------------------- *)
VARIABLES
    img,     \* the image.Image handed to the encoder
    call,    \* the encoder that was called, "none" before the call
    raw,     \* imageToRGBA's result
    width,   \* the encoder's width
    height,  \* the encoder's height
    output,  \* the encoder's payload buffer
    blob,    \* the returned []byte
    err      \* "none" before the call, then "nil" or "panic"

vars == <<img, call, raw, width, height, output, blob, err>>


(* ------------------------- slices and panics --------------------------- *)
\* Whether s[i] is a valid Go index expression (0 <= i < len(s)).
InRange(s, i) == 0 <= i /\ i < Len(s)

\* The loop state of an encoder: its output cursor, its output buffer, and
\* whether an index expression has panicked.
Cursor(z, out) == [z |-> z, output |-> out, panic |-> FALSE]

Panicked(s) == [s EXCEPT !.panic = TRUE]

(* ----------------------------- addPadding ------------------------------ *)
\* Mutant of addPadding: the test for an exact multiple is lost.
addPadding_NoTest(value, padding) == value + (padding - GoRem(value, padding))

addPadding(value, padding) ==
    IF GoRem(value, padding) # 0
    THEN value + (padding - GoRem(value, padding))
    ELSE value

(* ----------------------------- imageToRGBA ----------------------------- *)
\* ((a & 0xff) << 24) | ((r & 0xff) << 16) | ((g & 0xff) << 8) | ((b & 0xff) << 0)
PackTexel(c) ==
    Or32(Or32(Or32(And255Shl(c.a, 24), And255Shl(c.r, 16)), And255Shl(c.g, 8)),
         And255Shl(c.b, 0))

RECURSIVE imageToRGBALoopX(_, _, _, _)
imageToRGBALoopX(image, s, x, y) ==
    IF s.panic \/ ~(x < image.Bounds.Max.X) THEN s
    ELSE IF ~InRange(s.output, s.z) THEN Panicked(s)
    ELSE imageToRGBALoopX(image,
            [s EXCEPT !.output[s.z + 1] = PackTexel(At(image, x, y)),
                      !.z = s.z + 1],
            x + 1, y)

RECURSIVE imageToRGBALoopY(_, _, _)
imageToRGBALoopY(image, s, y) ==
    IF s.panic \/ ~(y < image.Bounds.Max.Y) THEN s
    ELSE imageToRGBALoopY(image,
            imageToRGBALoopX(image, s, image.Bounds.Min.X, y), y + 1)

\* The result is the loop state: output is the texel array, panic a failed make
\* or index.
imageToRGBA(image) ==
    LET size == image.Bounds
        n == (size.Max.X - size.Min.X) * (size.Max.Y - size.Min.Y)
    IN  IF n < 0 THEN Panicked(Cursor(0, <<>>))
        ELSE imageToRGBALoopY(image, Cursor(0, MakeZero(n, Uint32Zero)), size.Min.Y)

(* ---------------------------- makeTPLHeader ---------------------------- *)
\* binary.Write(buf, binary.BigEndian, v) of an unsigned field of n bytes.
BigEndian(v, n) == [i \in 1..n |-> (v \div Pow2(8 * (n - i))) % 256]

\* binary.Write of a FileHeader: its fields in declaration order.
FileHeader(header) ==
    BigEndian(header.Magic, 4) \o BigEndian(header.NumOfImages, 4)
    \o BigEndian(header.ImageTableOff, 4)

\* binary.Write of an ImageHeader: its fields in declaration order.  LODBias is
\* a float32, written as its bit pattern, which is 0 for 0.
ImageHeader(image) ==
    BigEndian(image.Height, 2) \o BigEndian(image.Width, 2)
    \o BigEndian(image.Format, 4) \o BigEndian(image.DataOffset, 4)
    \o BigEndian(image.WrapS, 4) \o BigEndian(image.WrapT, 4)
    \o BigEndian(image.MinFilter, 4) \o BigEndian(image.MagFilter, 4)
    \o BigEndian(image.LODBias, 4) \o BigEndian(image.EdgeLOD, 1)
    \o BigEndian(image.MidLOD, 1) \o BigEndian(image.MaxLOD, 1)
    \o BigEndian(image.Unpacked, 1)

\* binary.Write of a TPL: its fields in declaration order, with no padding.
TPL(tpl) ==
    FileHeader(tpl.Header) \o BigEndian(tpl.ImageOff, 4)
    \o BigEndian(tpl.PaletteOff, 4) \o ImageHeader(tpl.Image)

\* Mutant of makeTPLHeader: width and height change places.
makeTPLHeader_Swapped(payload, format, w, h) ==
    TPL([Header |-> [Magic |-> TPLMagic, NumOfImages |-> 1, ImageTableOff |-> 12],
         ImageOff |-> 20,
         PaletteOff |-> 0,
         Image |-> [Height |-> ToUint16(w), Width |-> ToUint16(h),
                    Format |-> format, DataOffset |-> 64, WrapS |-> 0, WrapT |-> 0,
                    MinFilter |-> 1, MagFilter |-> 1, LODBias |-> 0, EdgeLOD |-> 0,
                    MidLOD |-> 0, MaxLOD |-> 0, Unpacked |-> 0]])
    \o payload

makeTPLHeader(payload, format, w, h) ==
    TPL([Header |-> [Magic |-> TPLMagic, NumOfImages |-> 1, ImageTableOff |-> 12],
         ImageOff |-> 20,
         PaletteOff |-> 0,
         Image |-> [Height |-> ToUint16(h), Width |-> ToUint16(w),
                    Format |-> format, DataOffset |-> 64, WrapS |-> 0, WrapT |-> 0,
                    MinFilter |-> 1, MagFilter |-> 1, LODBias |-> 0, EdgeLOD |-> 0,
                    MidLOD |-> 0, MaxLOD |-> 0, Unpacked |-> 0]])
    \o payload

(* -------------------------------- ToI4 --------------------------------- *)
\* output[inp] = newPixel; inp++
Store8(s, newPixel) ==
    IF ~InRange(s.output, s.z) THEN Panicked(s)
    ELSE [s EXCEPT !.output[s.z + 1] = newPixel, !.z = s.z + 1]

\* ((r + g + b) / 3) & 0xff with r, g, b read from bits 0-7, 8-15, 16-23.
I4Intensity(rgba) ==
    LET r == ShrAnd255(rgba, 0)
        g == ShrAnd255(rgba, 8)
        b == ShrAnd255(rgba, 16)
    IN  BitAnd((r + g + b) \div 3, 255)

\* The body of the innermost loop, lines 109-138.
I4Pixel(s, texels, w, h, x, y) ==
    IF s.panic THEN s
    ELSE IF x >= w \/ y >= h THEN Store8(s, 0)
    ELSE IF ~InRange(texels, x + (y * w)) THEN Panicked(s)
    ELSE LET i1 == I4Intensity(texels[x + (y * w) + 1])
             rgba == IF (x + (y * w) + 1) >= Len(texels) THEN Uint32Zero
                     ELSE texels[x + (y * w) + 1 + 1]
             i2 == I4Intensity(rgba)
         IN  Store8(s, ToByte(BitOr(Shl((i1 * 15) \div 255, 4),
                                     BitAnd((i2 * 15) \div 255, 15))))

RECURSIVE I4LoopX(_, _, _, _, _, _, _)
I4LoopX(s, texels, w, h, x, xEnd, y) ==
    IF s.panic \/ ~(x < xEnd) THEN s
    ELSE I4LoopX(I4Pixel(s, texels, w, h, x, y), texels, w, h, x + 2, xEnd, y)

RECURSIVE I4LoopY(_, _, _, _, _, _, _)
I4LoopY(s, texels, w, h, x1, y, yEnd) ==
    IF s.panic \/ ~(y < yEnd) THEN s
    ELSE I4LoopY(I4LoopX(s, texels, w, h, x1, x1 + 8, y), texels, w, h, x1, y + 1, yEnd)

RECURSIVE I4LoopX1(_, _, _, _, _, _)
I4LoopX1(s, texels, w, h, x1, y1) ==
    IF s.panic \/ ~(x1 < w) THEN s
    ELSE I4LoopX1(I4LoopY(s, texels, w, h, x1, y1, y1 + 8), texels, w, h, x1 + 8, y1)

RECURSIVE I4LoopY1(_, _, _, _, _)
I4LoopY1(s, texels, w, h, y1) ==
    IF s.panic \/ ~(y1 < h) THEN s
    ELSE I4LoopY1(I4LoopX1(s, texels, w, h, 0, y1), texels, w, h, y1 + 8)

\* The payload loop of ToI4, lines 102-142, as a loop state.
I4Encode(texels, w, h) ==
    LET n == GoDiv(addPadding(w, 8) * addPadding(h, 8), 2)
    IN  IF n < 0 THEN Panicked(Cursor(0, <<>>))
        ELSE I4LoopY1(Cursor(0, MakeZero(n, 0)), texels, w, h, 0)

(* -------------------------------- ToIA4 -------------------------------- *)
\* Mutant of IA4Value: the sum r + g + b is kept in 8 bits.
IA4Value_Sum8(rgba) ==
    LET r == ShrAnd255(rgba, 0)
        g == ShrAnd255(rgba, 8)
        b == ShrAnd255(rgba, 16)
        i == BitAnd(ToByte(r + g + b) \div 3, 255)
        a == ShrAnd255(rgba, 24)
    IN  ToByte(BitOr(BitAnd((i * 15) \div 255, 15), Shl((a * 15) \div 255, 4)))

\* The else branch of the innermost loop, lines 165-174: the byte of a texel.
IA4Value(rgba) ==
    LET r == ShrAnd255(rgba, 0)
        g == ShrAnd255(rgba, 8)
        b == ShrAnd255(rgba, 16)
        i == BitAnd((r + g + b) \div 3, 255)
        a == ShrAnd255(rgba, 24)
    IN  ToByte(BitOr(BitAnd((i * 15) \div 255, 15), Shl((a * 15) \div 255, 4)))

\* The body of the innermost loop, lines 160-178.
IA4Pixel(s, texels, w, h, x, y) ==
    IF s.panic THEN s
    ELSE IF y >= h \/ x >= w THEN Store8(s, 0)
    ELSE IF ~InRange(texels, x + (y * w)) THEN Panicked(s)
    ELSE Store8(s, IA4Value(texels[x + (y * w) + 1]))

RECURSIVE IA4LoopX(_, _, _, _, _, _, _)
IA4LoopX(s, texels, w, h, x, xEnd, y) ==
    IF s.panic \/ ~(x < xEnd) THEN s
    ELSE IA4LoopX(IA4Pixel(s, texels, w, h, x, y), texels, w, h, x + 1, xEnd, y)

RECURSIVE IA4LoopY(_, _, _, _, _, _, _)
IA4LoopY(s, texels, w, h, x1, y, yEnd) ==
    IF s.panic \/ ~(y < yEnd) THEN s
    ELSE IA4LoopY(IA4LoopX(s, texels, w, h, x1, x1 + 8, y), texels, w, h, x1, y + 1, yEnd)

RECURSIVE IA4LoopX1(_, _, _, _, _, _)
IA4LoopX1(s, texels, w, h, x1, y1) ==
    IF s.panic \/ ~(x1 < w) THEN s
    ELSE IA4LoopX1(IA4LoopY(s, texels, w, h, x1, y1, y1 + 4), texels, w, h, x1 + 8, y1)

RECURSIVE IA4LoopY1(_, _, _, _, _)
IA4LoopY1(s, texels, w, h, y1) ==
    IF s.panic \/ ~(y1 < h) THEN s
    ELSE IA4LoopY1(IA4LoopX1(s, texels, w, h, 0, y1), texels, w, h, y1 + 4)

\* The payload loop of ToIA4, lines 153-182, as a loop state.
IA4Encode(texels, w, h) ==
    LET n == addPadding(w, 8) * addPadding(h, 4)
    IN  IF n < 0 THEN Panicked(Cursor(0, <<>>))
        ELSE IA4LoopY1(Cursor(0, MakeZero(n, 0)), texels, w, h, 0)

(* ------------------------------ ToRGB5A3 ------------------------------- *)
\* z++; output[z] = byte(newPixel >> 8); z++; output[z] = byte(newPixel & 0xff)
Store16(s, newPixel) ==
    IF ~InRange(s.output, s.z + 1) \/ ~InRange(s.output, s.z + 2) THEN Panicked(s)
    ELSE [s EXCEPT !.output[s.z + 1 + 1] = ToByte(Shr(newPixel, 8)),
                   !.output[s.z + 2 + 1] = ToByte(BitAnd(newPixel, 255)),
                   !.z = s.z + 2]

\* Mutant of RGB5A3Value: alpha 0xDA itself takes the opaque branch.
RGB5A3Value_Below(rgba) ==
    LET r == ShrAnd255(rgba, 16)
        g == ShrAnd255(rgba, 8)
        b == ShrAnd255(rgba, 0)
        a == ShrAnd255(rgba, 24)
    IN  IF a < 218
        THEN LET r4 == BitAnd((r * 15) \div 255, 15)
                 g4 == BitAnd((g * 15) \div 255, 15)
                 b4 == BitAnd((b * 15) \div 255, 15)
                 a3 == BitAnd((a * 7) \div 255, 7)
             IN  BitOr(0, BitOr(BitOr(BitOr(Shl(a3, 12), Shl(r4, 8)), Shl(g4, 4)), b4))
        ELSE LET r5 == BitAnd((r * 31) \div 255, 31)
                 g5 == BitAnd((g * 31) \div 255, 31)
                 b5 == BitAnd((b * 31) \div 255, 31)
             IN  BitOr(Shl(1, 15), BitOr(BitOr(Shl(r5, 10), Shl(g5, 5)), b5))

\* Lines 204-230: newPixel of a texel.  newPixel starts at 0, so clearing bit
\* 15 of it leaves 0.
RGB5A3Value(rgba) ==
    LET r == ShrAnd255(rgba, 16)
        g == ShrAnd255(rgba, 8)
        b == ShrAnd255(rgba, 0)
        a == ShrAnd255(rgba, 24)
    IN  IF a <= 218
        THEN LET r4 == BitAnd((r * 15) \div 255, 15)
                 g4 == BitAnd((g * 15) \div 255, 15)
                 b4 == BitAnd((b * 15) \div 255, 15)
                 a3 == BitAnd((a * 7) \div 255, 7)
             IN  BitOr(0, BitOr(BitOr(BitOr(Shl(a3, 12), Shl(r4, 8)), Shl(g4, 4)), b4))
        ELSE LET r5 == BitAnd((r * 31) \div 255, 31)
                 g5 == BitAnd((g * 31) \div 255, 31)
                 b5 == BitAnd((b * 31) \div 255, 31)
             IN  BitOr(Shl(1, 15), BitOr(BitOr(Shl(r5, 10), Shl(g5, 5)), b5))

\* The body of the innermost loop, lines 199-236: the two stores are inside the
\* else branch, so a position outside the image stores nothing.
RGB5A3Pixel(s, texels, w, h, x, y) ==
    IF s.panic THEN s
    ELSE IF y >= h \/ x >= w THEN s
    ELSE IF ~InRange(texels, x + (y * w)) THEN Panicked(s)
    ELSE Store16(s, RGB5A3Value(texels[x + (y * w) + 1]))

RECURSIVE RGB5A3LoopX(_, _, _, _, _, _, _)
RGB5A3LoopX(s, texels, w, h, x, xEnd, y) ==
    IF s.panic \/ ~(x < xEnd) THEN s
    ELSE RGB5A3LoopX(RGB5A3Pixel(s, texels, w, h, x, y), texels, w, h, x + 1, xEnd, y)

RECURSIVE RGB5A3LoopY(_, _, _, _, _, _, _)
RGB5A3LoopY(s, texels, w, h, x1, y, yEnd) ==
    IF s.panic \/ ~(y < yEnd) THEN s
    ELSE RGB5A3LoopY(RGB5A3LoopX(s, texels, w, h, x1, x1 + 4, y),
                     texels, w, h, x1, y + 1, yEnd)

RECURSIVE RGB5A3LoopX1(_, _, _, _, _, _)
RGB5A3LoopX1(s, texels, w, h, x1, y1) ==
    IF s.panic \/ ~(x1 < w) THEN s
    ELSE RGB5A3LoopX1(RGB5A3LoopY(s, texels, w, h, x1, y1, y1 + 4),
                      texels, w, h, x1 + 4, y1)

RECURSIVE RGB5A3LoopY1(_, _, _, _, _)
RGB5A3LoopY1(s, texels, w, h, y1) ==
    IF s.panic \/ ~(y1 < h) THEN s
    ELSE RGB5A3LoopY1(RGB5A3LoopX1(s, texels, w, h, 0, y1), texels, w, h, y1 + 4)

\* The payload loop of ToRGB5A3, lines 192-240, as a loop state.
RGB5A3Encode(texels, w, h) ==
    LET n == addPadding(w, 4) * addPadding(h, 4) * 2
    IN  IF n < 0 THEN Panicked(Cursor(0 - 1, <<>>))
        ELSE RGB5A3LoopY1(Cursor(0 - 1, MakeZero(n, 0)), texels, w, h, 0)

(* ------------------------------ ToRGB565 ------------------------------- *)
\* Mutant of RGB565Value: each variable is read from the bits of its name.
RGB565Value_AsNamed(rgb) ==
    LET b == ShrAnd255(rgb, 0)
        g == ShrAnd255(rgb, 8)
        r == ShrAnd255(rgb, 16)
    IN  ToUint16(BitOr(BitOr(Shl(Shr(r, 3), 0), Shl(Shr(g, 2), 5)), Shl(Shr(b, 3), 11)))

\* Lines 263-269: newPixel of a texel.  The variable named b is read from bits
\* 16-23 and the one named r from bits 0-7.
RGB565Value(rgb) ==
    LET b == ShrAnd255(rgb, 16)
        g == ShrAnd255(rgb, 8)
        r == ShrAnd255(rgb, 0)
    IN  ToUint16(BitOr(BitOr(Shl(Shr(r, 3), 0), Shl(Shr(g, 2), 5)), Shl(Shr(b, 3), 11)))

\* The body of the innermost loop, lines 258-275.
RGB565Pixel(s, texels, w, h, x, y) ==
    IF s.panic THEN s
    ELSE IF y >= h \/ x >= w THEN Store16(s, 0)
    ELSE IF ~InRange(texels, x + y * w) THEN Panicked(s)
    ELSE Store16(s, RGB565Value(texels[x + y * w + 1]))

RECURSIVE RGB565LoopX(_, _, _, _, _, _, _)
RGB565LoopX(s, texels, w, h, x, xEnd, y) ==
    IF s.panic \/ ~(x < xEnd) THEN s
    ELSE RGB565LoopX(RGB565Pixel(s, texels, w, h, x, y), texels, w, h, x + 1, xEnd, y)

RECURSIVE RGB565LoopY(_, _, _, _, _, _, _)
RGB565LoopY(s, texels, w, h, x1, y, yEnd) ==
    IF s.panic \/ ~(y < yEnd) THEN s
    ELSE RGB565LoopY(RGB565LoopX(s, texels, w, h, x1, x1 + 4, y),
                     texels, w, h, x1, y + 1, yEnd)

RECURSIVE RGB565LoopX1(_, _, _, _, _, _)
RGB565LoopX1(s, texels, w, h, x1, y1) ==
    IF s.panic \/ ~(x1 < w) THEN s
    ELSE RGB565LoopX1(RGB565LoopY(s, texels, w, h, x1, y1, y1 + 4),
                      texels, w, h, x1 + 4, y1)

RECURSIVE RGB565LoopY1(_, _, _, _, _)
RGB565LoopY1(s, texels, w, h, y1) ==
    IF s.panic \/ ~(y1 < h) THEN s
    ELSE RGB565LoopY1(RGB565LoopX1(s, texels, w, h, 0, y1), texels, w, h, y1 + 4)

\* The payload loop of ToRGB565, lines 251-279, as a loop state.
RGB565Encode(texels, w, h) ==
    LET n == addPadding(w, 4) * addPadding(h, 4) * 2
    IN  IF n < 0 THEN Panicked(Cursor(0 - 1, <<>>))
        ELSE RGB565LoopY1(Cursor(0 - 1, MakeZero(n, 0)), texels, w, h, 0)

(* --------------------------- the conversions --------------------------- *)
\* The payload loop of the encoder of a format.
Encode(format, texels, w, h) ==
    CASE format = I4 -> I4Encode(texels, w, h)
      [] format = IA4 -> IA4Encode(texels, w, h)
      [] format = RGB5A3 -> RGB5A3Encode(texels, w, h)
      [] format = RGB565 -> RGB565Encode(texels, w, h)

\* The return of a conversion call whose texel array is t and whose payload
\* loop ended in s (both loop states): the blob of makeTPLHeader, or a panic
\* and no blob.
Return(name, format, t, s) ==
    /\ call' = name
    /\ img' = img
    /\ width' = img.Bounds.Max.X
    /\ height' = img.Bounds.Max.Y
    /\ raw' = t.output
    /\ output' = s.output
    /\ blob' = IF s.panic THEN <<>>
               ELSE makeTPLHeader(s.output, format, img.Bounds.Max.X, img.Bounds.Max.Y)
    /\ err' = IF s.panic THEN "panic" ELSE "nil"

\* The payload loop over the texel array t.output, which is not run when
\* imageToRGBA panicked.
Encoded(name, format, t) ==
    Return(name, format, t,
           IF t.panic THEN Panicked(Cursor(0, <<>>))
           ELSE Encode(format, t.output, img.Bounds.Max.X, img.Bounds.Max.Y))

\* One conversion call each: raw := imageToRGBA(img), width and height from
\* the bounds' Max, the payload loop, then makeTPLHeader.
ToI4 ==
    /\ call = "none"
    /\ Encoded("ToI4", I4, imageToRGBA(img))

ToIA4 ==
    /\ call = "none"
    /\ Encoded("ToIA4", IA4, imageToRGBA(img))

ToRGB5A3 ==
    /\ call = "none"
    /\ Encoded("ToRGB5A3", RGB5A3, imageToRGBA(img))

ToRGB565 ==
    /\ call = "none"
    /\ Encoded("ToRGB565", RGB565, imageToRGBA(img))

(* --------------------------- specifications ---------------------------- *)
Start(images) ==
    /\ img \in images
    /\ call = "none"
    /\ raw = <<>>
    /\ width = 0
    /\ height = 0
    /\ output = <<>>
    /\ blob = <<>>
    /\ err = "none"

\* Images whose bounds rectangle starts at (0,0), as image.NewRGBA and the
\* decoders of the standard library make them.
Init == Start(Images({0}))

\* Images whose bounds rectangle may start elsewhere, as SubImage makes them.
InitOrigin == Start(Images((0 - MaxOrigin)..MaxOrigin))

Next == ToI4 \/ ToIA4 \/ ToRGB5A3 \/ ToRGB565

Spec == Init /\ [][Next]_vars

SpecOrigin == InitOrigin /\ [][Next]_vars

(* ------------------- vocabulary of the properties ---------------------- *)
\* The image's true width and height, as the texel array is sized.
W == img.Bounds.Max.X - img.Bounds.Min.X
H == img.Bounds.Max.Y - img.Bounds.Min.Y

Done == call # "none"
Succeeded == Done /\ err = "nil"

\* The number of bytes binary.Write produces for a TPL value.
HeaderSize == Len(makeTPLHeader(<<>>, I4, 0, 0))

\* Byte i (from 0) of the blob, and of the blob's payload.
BlobByte(i) == blob[i + 1]
PayloadByte(i) == blob[HeaderSize + i + 1]
PayloadLen == Len(blob) - HeaderSize

\* Big-endian 16-bit and 32-bit fields of the blob at byte i.
BlobU16(i) == BlobByte(i) * 256 + BlobByte(i + 1)
BlobBytes4(i) == <<BlobByte(i), BlobByte(i + 1), BlobByte(i + 2), BlobByte(i + 3)>>

\* value rounded up to a multiple of block.
Pad(value, block) == ((value + block - 1) \div block) * block

\* Block geometry and bits per texel of the encoder that was called.
BlockW == IF call \in {"ToI4", "ToIA4"} THEN 8 ELSE 4
BlockH == IF call = "ToI4" THEN 8 ELSE 4
Bits == CASE call = "ToI4" -> 4 [] call = "ToIA4" -> 8 [] OTHER -> 16

\* The texel positions of the image, and of the image padded to whole blocks.
InBounds == (0..(W - 1)) \X (0..(H - 1))
Padded == (0..(Pad(W, BlockW) - 1)) \X (0..(Pad(H, BlockH) - 1))

\* The ordinal of position (x,y) in block-tiled order: blocks row-major,
\* texels row-major inside the block.
Tiled(x, y) ==
    (((y \div BlockH) * (Pad(W, BlockW) \div BlockW)) + (x \div BlockW))
        * (BlockW * BlockH)
    + (y % BlockH) * BlockW + (x % BlockW)

\* The 8-bit channels of pixel (x,y) of the image: the low bytes of RGBA().
Chan(x, y) ==
    LET c == At(img, img.Bounds.Min.X + x, img.Bounds.Min.Y + y)
    IN  [r |-> c.r % 256, g |-> c.g % 256, b |-> c.b % 256, a |-> c.a % 256]

\* The 4-bit intensity of pixel (x,y).
Intensity4(x, y) == ((((Chan(x, y).r + Chan(x, y).g + Chan(x, y).b) \div 3) * 15) \div 255)

\* The 16-bit big-endian value at payload byte i.
PayloadU16(i) == PayloadByte(i) * 256 + PayloadByte(i + 1)

\* The texel of the flat array for position (x,y), read as the adapter packs it:
\* alpha in bits 31-24, red in 23-16, green in 15-8, blue in 7-0.
RawRed(x, y) == raw[y * W + x + 1][2]
RawGreen(x, y) == raw[y * W + x + 1][3]
RawBlue(x, y) == raw[y * W + x + 1][4]

(* ------------------------------ properties ----------------------------- *)

\* C1: in every format, each position of the padded grid has its own place in
\* the payload, the block-tiled one: an in-bounds texel's encoding sits there,
\* and a position at or beyond the width or height has the all-zero encoding.
\* (In I4 the low nibble beside an in-bounds texel is what C4 states, and is
\* left to it.)
C1_ZeroFillInPlace ==
    (Succeeded /\ W > 0 /\ H > 0) =>
        \A p \in Padded :
            LET x == p[1]
                y == p[2]
                k == Tiled(x, y)
                in == x < W /\ y < H
                t == raw[y * W + x + 1]
            IN  CASE call = "ToI4" ->
                       IF x % 2 = 0
                       THEN PayloadByte(k \div 2) \div 16
                            = (IF in THEN (I4Intensity(t) * 15) \div 255 ELSE 0)
                       ELSE (in \/ x - 1 >= W \/ y >= H) =>
                            PayloadByte(k \div 2) % 16
                            = (IF in THEN (I4Intensity(t) * 15) \div 255 ELSE 0)
                  [] call = "ToIA4" ->
                       PayloadByte(k) = (IF in THEN IA4Value(t) ELSE 0)
                  [] call = "ToRGB565" ->
                       PayloadU16(2 * k) = (IF in THEN RGB565Value(t) ELSE 0)
                  [] call = "ToRGB5A3" ->
                       PayloadU16(2 * k) = (IF in THEN RGB5A3Value(t) ELSE 0)

\* C2: the payload of a successful conversion of a W x H image, W,H > 0, has
\* exactly pad(W,blockW)*pad(H,blockH)*bits/8 bytes, which is W*H*bits/8 when W
\* and H are multiples of the block size.
C2_PayloadLength ==
    (Done /\ W > 0 /\ H > 0) =>
        /\ err = "nil"
        /\ PayloadLen = (Pad(W, BlockW) * Pad(H, BlockH) * Bits) \div 8
        /\ (W % BlockW = 0 /\ H % BlockH = 0) => PayloadLen = (W * H * Bits) \div 8

\* C2 witness: an IA4 conversion of a 9 x 5 image, padded to 16 x 8.
C2_Witness ==
    /\ Succeeded /\ call = "ToIA4" /\ W = 9 /\ H = 5
    /\ PayloadLen = 128

\* C3 (as stated): in RGB565 the value of an in-bounds texel is
\* red5 | green6<<5 | blue5<<11 of the adapter's channels, red in the low bits.
C3_RedLowBlueHigh ==
    (Succeeded /\ call = "ToRGB565") =>
        \A p \in InBounds :
            PayloadU16(2 * Tiled(p[1], p[2]))
                = (RawRed(p[1], p[2]) \div 8)
                  + 32 * (RawGreen(p[1], p[2]) \div 4)
                  + 2048 * (RawBlue(p[1], p[2]) \div 8)

\* C3 (amended): in RGB565 the value of an in-bounds texel is
\* blue5 | green6<<5 | red5<<11 of the adapter's channels (blue in the low 5
\* bits, red in the high 5 bits), written high byte first.
C3_BlueLowRedHigh ==
    (Succeeded /\ call = "ToRGB565") =>
        \A p \in InBounds :
            LET v == (RawBlue(p[1], p[2]) \div 8)
                     + 32 * (RawGreen(p[1], p[2]) \div 4)
                     + 2048 * (RawRed(p[1], p[2]) \div 8)
                k == 2 * Tiled(p[1], p[2])
            IN  /\ PayloadByte(k) = v \div 256
                /\ PayloadByte(k + 1) = v % 256

\* C3 witness: an RGB565 conversion with a texel whose red and blue differ in
\* their 5-bit values, in the second block of the second block row.
C3_Witness ==
    /\ Succeeded /\ call = "ToRGB565" /\ W > 4 /\ H > 4
    /\ \E p \in InBounds :
          /\ p[1] >= 4 /\ p[2] >= 4
          /\ RawRed(p[1], p[2]) \div 8 # RawBlue(p[1], p[2]) \div 8

\* C4: in I4, the byte of an in-bounds texel (x,y) with even x has the texel's
\* 4-bit intensity in its high nibble and that of (x+1,y) in its low nibble,
\* which is 0 when x+1 >= W.
C4_I4Nibbles ==
    (Succeeded /\ call = "ToI4") =>
        \A p \in InBounds :
            (p[1] % 2 = 0) =>
                LET byte == PayloadByte(Tiled(p[1], p[2]) \div 2)
                IN  /\ byte \div 16 = Intensity4(p[1], p[2])
                    /\ byte % 16 = (IF p[1] + 1 < W THEN Intensity4(p[1] + 1, p[2])
                                    ELSE 0)

\* The place of in-bounds texel (x,y) among the in-bounds texels, in the order
\* the blocks and the texels inside them are visited.
VisitRank(x, y) ==
    Cardinality({q \in InBounds : Tiled(q[1], q[2]) < Tiled(x, y)})

\* C5: in RGB5A3 the 16-bit value emitted for an in-bounds texel (a,r,g,b), high
\* byte first, is bit15 = 0, a*7/255, r*15/255, g*15/255, b*15/255 in bits
\* 14-12, 11-8, 7-4, 3-0 when a <= 0xDA, and bit15 = 1, r*31/255, g*31/255,
\* b*31/255 in bits 14-10, 9-5, 4-0 when a > 0xDA.  The value of a texel is the
\* pair of bytes stored when the encoder visits it.
C5_RGB5A3Value ==
    (Succeeded /\ call = "ToRGB5A3") =>
        \A p \in InBounds :
            LET c == Chan(p[1], p[2])
                k == 2 * VisitRank(p[1], p[2])
                hi == PayloadByte(k)
                lo == PayloadByte(k + 1)
                v == hi * 256 + lo
            IN  IF c.a <= 218
                THEN /\ v \div 32768 = 0
                     /\ (v \div 4096) % 8 = (c.a * 7) \div 255
                     /\ (v \div 256) % 16 = (c.r * 15) \div 255
                     /\ (v \div 16) % 16 = (c.g * 15) \div 255
                     /\ v % 16 = (c.b * 15) \div 255
                ELSE /\ v \div 32768 = 1
                     /\ (v \div 1024) % 32 = (c.r * 31) \div 255
                     /\ (v \div 32) % 32 = (c.g * 31) \div 255
                     /\ v % 32 = (c.b * 31) \div 255
                     /\ (c.r = 0 /\ c.g = 0 /\ c.b = 0) => (hi = 128 /\ lo = 0)

\* C5 witness: an RGB5A3 conversion of an image that has a texel with alpha
\* 0xDA, one with alpha 0xDB, an opaque black one and a transparent one.
C5_Witness ==
    /\ Succeeded /\ call = "ToRGB5A3"
    /\ \E p \in InBounds : Chan(p[1], p[2]).a = 218
    /\ \E p \in InBounds : Chan(p[1], p[2]).a = 219
    /\ \E p \in InBounds : Chan(p[1], p[2]) = [r |-> 0, g |-> 0, b |-> 0, a |-> 255]
    /\ \E p \in InBounds : Chan(p[1], p[2]).a = 0

\* C6: a conversion of an image with W <= 0 or H <= 0 fails with InvalidImage
\* and returns no blob.
C6_InvalidImage ==
    (Done /\ (W <= 0 \/ H <= 0)) => (err = "InvalidImage" /\ blob = <<>>)

\* C7: the blob of a successful conversion, 0 < W,H <= 65535, starts with the
\* magic 00 20 AF 30, the image count 1 and the table offset 0x0C, and its image
\* descriptor (at the image offset the header stores) holds H and W as 16-bit
\* values, the format id of the encoder, the data offset 64 and zero LOD
\* bias, edge, min and max fields.
C7_Header ==
    (Succeeded /\ 0 < W /\ W <= 65535 /\ 0 < H /\ H <= 65535) =>
        /\ BlobBytes4(0) = <<0, 32, 175, 48>>
        /\ BlobBytes4(4) = <<0, 0, 0, 1>>
        /\ BlobBytes4(8) = <<0, 0, 0, 12>>
        /\ LET d == BlobByte(15)
           IN  /\ BlobBytes4(12) = <<0, 0, 0, d>>
               /\ BlobU16(d) = H
               /\ BlobU16(d + 2) = W
               /\ BlobBytes4(d + 4) =
                      <<0, 0, 0, CASE call = "ToI4" -> 0
                                   [] call = "ToIA4" -> 2
                                   [] call = "ToRGB565" -> 4
                                   [] call = "ToRGB5A3" -> 5>>
               /\ BlobBytes4(d + 8) = <<0, 0, 0, 64>>
               /\ BlobBytes4(d + 28) = <<0, 0, 0, 0>>
               /\ BlobByte(d + 32) = 0
               /\ BlobByte(d + 33) = 0
               /\ BlobByte(d + 34) = 0

\* C7 witness: the blob of an RGB5A3 conversion of a 9 x 5 image.
C7_Witness ==
    /\ Succeeded /\ call = "ToRGB5A3" /\ W = 9 /\ H = 5
    /\ BlobU16(20) = 5 /\ BlobU16(22) = 9 /\ BlobByte(27) = 5

\* C8: whatever the origin of the bounds rectangle, a conversion of an image
\* with W > 0 and H > 0 completes without an index out of range, and the
\* encoder's width and height are the W and H the texel array was sized with.
C8_AnyOrigin ==
    (Done /\ W > 0 /\ H > 0) => (err = "nil" /\ width = W /\ height = H)

\* C9: the offsets the header stores agree with the blob of an image: the
\* image descriptor starts at the stored image offset, 20, and the payload at
\* the stored data offset, 64, so that the blob has 64 + payload length bytes.
C9_OffsetsAgree ==
    (Succeeded /\ W > 0 /\ H > 0) =>
        /\ BlobBytes4(12) = <<0, 0, 0, 20>>
        /\ BlobBytes4(28) = <<0, 0, 0, 64>>
        /\ Len(blob) = 64 + Len(output)
        /\ SubSeq(blob, 64 + 1, Len(blob)) = output

\* C10: in IA4 an in-bounds texel (a,r,g,b) has exactly one payload byte, at its
\* block-tiled position, with (((r+g+b)/3)*15)/255 in its low nibble, the sum
\* not wrapped at 8 bits, and (a*15)/255 in its high nibble.
C10_IA4Byte ==
    (Succeeded /\ call = "ToIA4") =>
        /\ PayloadLen = Cardinality(Padded)
        /\ \A p \in InBounds :
              LET c == Chan(p[1], p[2])
                  byte == PayloadByte(Tiled(p[1], p[2]))
              IN  /\ byte % 16 = (((c.r + c.g + c.b) \div 3) * 15) \div 255
                  /\ byte \div 16 = (c.a * 15) \div 255
                  /\ (c.r = 255 /\ c.g = 255 /\ c.b = 255 /\ c.a = 255) => byte = 255

\* C10 witness: an IA4 conversion of an image of two by two blocks with an
\* opaque white texel in the last block.
C10_Witness ==
    /\ Succeeded /\ call = "ToIA4" /\ W > 8 /\ H > 4
    /\ \E p \in InBounds :
          /\ p[1] >= 8 /\ p[2] >= 4
          /\ Chan(p[1], p[2]) = [r |-> 255, g |-> 255, b |-> 255, a |-> 255]
          /\ PayloadByte(Tiled(p[1], p[2])) = 255

=============================================================================
